---- MODULE Spec2Model ----
(***************************************************************************)
(* Client-side synchronisation core of the OwlBoard web front end:         *)
(*   - the comments store (useComments) and the REST calls and stream      *)
(*     events that mutate it;                                              *)
(*   - the comments stream connection (useCommentsWebSocket);              *)
(*   - the chat stream connection (useChatWebSocket) and the chat         *)
(*     service object (ChatApiService).                                    *)
(* Spec is the specification of the comments store, SpecEdit that of its   *)
(* update and delete calls, SpecWs, SpecChat and SpecStreams those of the  *)
(* stream connections, SpecApi that of ChatApiService, and SpecInbound     *)
(* that of the frames and REST results the hooks take in.                  *)
(***************************************************************************)
EXTENDS Integers, Sequences, FiniteSets, TLC

\* ------------------------------------------------------------------------
\* Bounds of the model
\* ------------------------------------------------------------------------
\* length of the comments list up to which a temporary comment is added
MaxComments == 2
\* identifiers the comments service assigns
MaxRemote == 1
\* REST calls of one kind awaiting their response
MaxInflight == 1

\* the values Date.now() takes: enough for all temporary comments of a full
\* list to differ
Stamps == 0..(MaxComments - 1)
\* coordinates a comment can be placed at or dragged to
Coords == {<<10, 20>>, <<30, 40>>}
\* texts typed into a comment
Texts == {"hi", "yo"}
\* the two ways the backend names a record's identifier
IdForms == {"_id", "id"}

\* ------------------------------------------------------------------------
\* JavaScript values
\* ------------------------------------------------------------------------
\* the value of an absent property
UNDEF == "undefined"
Truthy(v) == v # UNDEF /\ v # ""
\* a || b
JsOr(a, b) == IF Truthy(a) THEN a ELSE b

TempId(now) == "temp-" \o ToString(now)
\* c.id.startsWith('temp-')
IsTemp(id) == \E n \in Stamps : id = TempId(n)
RemoteId(n) == "c" \o ToString(n)

\* `${x},${y}`
CoordString(x, y) == ToString(x) \o "," \o ToString(y)
\* the comments service reading "x,y" back into [x, y]
ParseCoordinates(s) == CHOOSE p \in Coords : CoordString(p[1], p[2]) = s

VARIABLES
    comments,   \* useComments: the comments state (a list of CommentDef)
    loading,    \* useComments: loading state
    error,      \* useComments: error state (a message or "null")
    clock,      \* Date.now()
    allocated,  \* the comments service: number of identifiers it has assigned
    saves,      \* createComment calls awaiting their response
    loads,      \* getCommentsByDashboard calls awaiting their response
    persisted,  \* history: records whose createComment response was applied
    last        \* history: the last operation on the store

storeVars == <<comments, loading, error, clock, allocated, saves, loads,
               persisted, last>>

\* ------------------------------------------------------------------------
\* CommentsApiService conversions
\* ------------------------------------------------------------------------
\* a CommentResponse as the service serialises record rec
BackendComment(rec, form) ==
    [_id |-> IF form = "_id" THEN rec.rid ELSE UNDEF,
     id |-> IF form = "id" THEN rec.rid ELSE UNDEF,
     content |-> rec.content,
     coordinates |-> rec.coordinates]

convertToFrontendComment(backendComment) ==
    LET commentId == JsOr(JsOr(backendComment._id, backendComment.id), "")
    IN  [id |-> commentId,
         x |-> backendComment.coordinates[1],
         y |-> backendComment.coordinates[2],
         text |-> backendComment.content,
         backendId |-> commentId]

convertToBackendComment(frontendComment) ==
    [content |-> frontendComment.text,
     coordinates |-> CoordString(frontendComment.x, frontendComment.y)]

\* ------------------------------------------------------------------------
\* useComments: the state updaters
\* ------------------------------------------------------------------------
CountBackendId(list, rid) == Cardinality({i \in DOMAIN list : list[i].backendId = rid})

handleCommentCreated(prev, backendComment) ==
    LET frontend == convertToFrontendComment(backendComment)
        exists == \E i \in DOMAIN prev :
                     \/ prev[i].backendId = frontend.backendId
                     \/ (Truthy(prev[i].backendId) /\ prev[i].backendId = backendComment._id)
    IN  IF exists
        THEN [i \in DOMAIN prev |->
                IF \/ prev[i].backendId = frontend.backendId
                   \/ prev[i].backendId = backendComment._id
                THEN frontend ELSE prev[i]]
        ELSE Append(prev, frontend)

handleCommentUpdated(prev, backendComment) ==
    LET frontend == convertToFrontendComment(backendComment)
    IN  [i \in DOMAIN prev |->
            IF \/ prev[i].backendId = frontend.backendId
               \/ prev[i].backendId = backendComment._id
            THEN frontend ELSE prev[i]]

\* the filter as it would be were it to keep only entities that have a backendId
handleCommentDeletedDropsPending(prev, commentId) ==
    LET Keep(c) == Truthy(c.backendId) /\ c.backendId # commentId
    IN  SelectSeq(prev, Keep)

handleCommentDeleted(prev, commentId) ==
    LET Keep(c) == c.backendId # commentId
    IN  SelectSeq(prev, Keep)

\* the updater of loadComments
mergeLoaded(prev, backendComments) ==
    LET frontendComments ==
            [i \in DOMAIN backendComments |-> convertToFrontendComment(backendComments[i])]
        IsTempComment(c) == IsTemp(c.id)
        tempComments == SelectSeq(prev, IsTempComment)
        NotSaved(t) == ~ \E i \in DOMAIN frontendComments :
                            \/ frontendComments[i].backendId = t.backendId
                            \/ frontendComments[i].id = t.id
        tempWithoutSaved == SelectSeq(tempComments, NotSaved)
    IN  frontendComments \o tempWithoutSaved

\* the updater of createTemporaryComment
appendTemporary(prev, now, x, y) ==
    Append(prev, [id |-> TempId(now), backendId |-> UNDEF, text |-> "", x |-> x, y |-> y])

\* the updater of saveTemporaryComment
replaceTemporary(prev, tempId, converted) ==
    [i \in DOMAIN prev |-> IF prev[i].id = tempId THEN converted ELSE prev[i]]

\* the catch block as it would be were it to discard the temporary comment
afterFailedSaveDropsTemporary(prev, tempId) ==
    LET Keep(c) == c.id # tempId
    IN  SelectSeq(prev, Keep)

\* the comments state after the catch block of saveTemporaryComment, which
\* logs and rethrows and calls no updater
afterFailedSave(prev, tempId) == prev

\* the updater of cancelTemporaryComment
removeById(prev, id) ==
    LET Keep(c) == c.id # id
    IN  SelectSeq(prev, Keep)

\* the updater as it would be were it to rebuild the moved comment without
\* its backendId
moveByIdDroppingBackendId(prev, id, x, y) ==
    [i \in DOMAIN prev |->
        IF prev[i].id = id THEN [prev[i] EXCEPT !.x = x, !.y = y, !.backendId = UNDEF]
        ELSE prev[i]]

\* the updater of updateCommentPosition
moveById(prev, id, x, y) ==
    [i \in DOMAIN prev |-> IF prev[i].id = id THEN [prev[i] EXCEPT !.x = x, !.y = y] ELSE prev[i]]

\* comments.find((c) => c.id === id)
FindById(list, id) == list[CHOOSE i \in DOMAIN list :
                              list[i].id = id /\ \A j \in DOMAIN list : list[j].id = id => i <= j]

\* ------------------------------------------------------------------------
\* The comments service, as the store sees it: the identifiers it has
\* assigned, the responses it gives and the frames it broadcasts
\* ------------------------------------------------------------------------
AllocatedIds == {RemoteId(n) : n \in 1..allocated}

\* a record of the service
Records(ids) == [rid : ids, content : Texts, coordinates : Coords]

\* the frames of the comments stream (CommentWebSocketMessage)
Frames ==
    {[type |-> t, data |-> BackendComment(rec, form)] :
        t \in {"comment_created", "comment_updated"}, rec \in Records(AllocatedIds), form \in IdForms}
    \cup {[type |-> "comment_deleted", data |-> [comment_id |-> rid]] : rid \in AllocatedIds}

\* the identifier a frame is about
FrameRid(message) ==
    IF message.type = "comment_deleted" THEN message.data.comment_id
    ELSE JsOr(message.data._id, message.data.id)

\* the lists the service can answer with: its records at the time of the
\* request, in creation order, each identifier once
RECURSIVE Listings(_, _)
Listings(n, form) ==
    IF n = 0 THEN {<<>>}
    ELSE LET shorter == Listings(n - 1, form)
         IN  shorter \cup
             {Append(l, BackendComment(rec, form)) : l \in shorter, rec \in Records({RemoteId(n)})}

NoOp == [op |-> "none"]

StoreInit ==
    /\ comments = <<>>
    /\ loading = FALSE
    /\ error = "null"
    /\ clock = 0
    /\ allocated = 0
    /\ saves = {}
    /\ loads = {}
    /\ persisted = {}
    /\ last = NoOp

\* ------------------------------------------------------------------------
\* useComments: operations
\* ------------------------------------------------------------------------
Tick ==
    /\ clock + 1 \in Stamps
    /\ clock' = clock + 1
    /\ UNCHANGED <<comments, loading, error, allocated, saves, loads, persisted, last>>

CreateTemporaryComment ==
    /\ Len(comments) < MaxComments
    /\ \E p \in Coords :
          /\ comments' = appendTemporary(comments, clock, p[1], p[2])
          /\ last' = [op |-> "createTemporaryComment"]
    /\ UNCHANGED <<loading, error, clock, allocated, saves, loads, persisted>>

\* saveTemporaryComment up to its await: the request reaches the service, which
\* either stores the record under a new identifier or rejects the request
SaveTemporaryCommentRequest ==
    /\ Cardinality(saves) < MaxInflight
    /\ \E i \in DOMAIN comments, text \in Texts, ok \in BOOLEAN :
          LET tempId == comments[i].id
              comment == FindById(comments, tempId)
              request == convertToBackendComment([comment EXCEPT !.text = text])
              rec == [rid |-> RemoteId(allocated + 1),
                      content |-> request.content,
                      coordinates |-> ParseCoordinates(request.coordinates)]
          IN  /\ IsTemp(tempId)
              /\ IF ok
                 THEN /\ allocated < MaxRemote
                      /\ allocated' = allocated + 1
                      /\ saves' = saves \cup {[tempId |-> tempId, ok |-> TRUE, rec |-> rec,
                                               echoed |-> FALSE]}
                 ELSE /\ saves' = saves \cup {[tempId |-> tempId, ok |-> FALSE]}
                      /\ UNCHANGED allocated
    /\ UNCHANGED <<comments, loading, error, clock, loads, persisted, last>>

\* saveTemporaryComment after its await
SaveTemporaryCommentResponse ==
    \E s \in saves :
        /\ saves' = saves \ {s}
        /\ IF s.ok
           THEN \E form \in IdForms :
                LET newComment == BackendComment(s.rec, form)
                    converted == convertToFrontendComment(newComment)
                IN  /\ comments' = replaceTemporary(comments, s.tempId, converted)
                    /\ persisted' = persisted \cup {converted.backendId}
                    /\ last' = [op |-> "saveTemporaryComment", id |-> converted.backendId,
                                tempId |-> s.tempId, echoed |-> s.echoed]
           ELSE /\ comments' = afterFailedSave(comments, s.tempId)
                /\ last' = [op |-> "saveTemporaryCommentFailed", tempId |-> s.tempId,
                            outcome |-> "rejected"]
                /\ UNCHANGED persisted
        /\ UNCHANGED <<loading, error, clock, allocated, loads>>

\* cancelTemporaryComment(id), for the id of a comment of the list or the id
\* of a temporary comment that may no longer be in it
CancelTemporaryComment ==
    /\ \E id \in {comments[i].id : i \in DOMAIN comments} \cup {TempId(n) : n \in Stamps} :
          /\ comments' = removeById(comments, id)
          /\ last' = [op |-> "cancelTemporaryComment", id |-> id]
    /\ UNCHANGED <<loading, error, clock, allocated, saves, loads, persisted>>

\* updateCommentPosition: the local move; the coordinates request that follows
\* when the comment has a backendId changes nothing in the store, whatever
\* its outcome
UpdateCommentPosition ==
    /\ \E i \in DOMAIN comments, p \in Coords :
          LET id == comments[i].id
              comment == FindById(comments, id)
          IN  /\ comments' = moveById(comments, id, p[1], p[2])
              /\ last' = [op |-> "updateCommentPosition", id |-> id, x |-> p[1], y |-> p[2]]
    /\ UNCHANGED <<loading, error, clock, allocated, saves, loads, persisted>>

\* loadComments up to its await: the service will answer from the records it
\* holds at that moment
LoadCommentsRequest ==
    /\ Cardinality(loads) < MaxInflight
    /\ loading' = TRUE
    /\ loads' = loads \cup {[snapshot |-> allocated]}
    /\ UNCHANGED <<comments, error, clock, allocated, saves, persisted, last>>

\* getCommentsByDashboard as it would be were it to throw on every status
\* that is not ok
getCommentsByDashboardThrowsOn404(response) ==
    IF response.status = 200 THEN [ok |-> TRUE, value |-> response.body]
    ELSE [ok |-> FALSE, value |-> "Error fetching comments"]

\* CommentsApiService.getCommentsByDashboard on the response
getCommentsByDashboard(response) ==
    IF response.status = 200 THEN [ok |-> TRUE, value |-> response.body]
    ELSE IF response.status = 404 THEN [ok |-> TRUE, value |-> <<>>]
    ELSE [ok |-> FALSE, value |-> "Error fetching comments"]

\* loadComments after its await: the service has answered with records among
\* those it held at the request, with 404, or with another failure status
LoadCommentsResponse ==
    \E l \in loads, status \in {200, 404, 500}, form \in IdForms :
      \E body \in IF status = 200 THEN Listings(l.snapshot, form) ELSE {<<>>} :
        LET result == getCommentsByDashboard([status |-> status, body |-> body])
        IN  /\ loads' = loads \ {l}
            /\ loading' = FALSE
            /\ IF result.ok
               THEN /\ comments' = mergeLoaded(comments, result.value)
                    /\ last' = [op |-> "loadComments", status |-> status]
                    /\ UNCHANGED error
               ELSE /\ error' = result.value
                    /\ last' = [op |-> "loadCommentsFailed", status |-> status]
                    /\ UNCHANGED comments
            /\ UNCHANGED <<clock, allocated, saves, persisted>>

\* the statuses the comments service answers a PUT or DELETE with
EditStatuses == {200, 404, 500}
\* response.ok
ResponseOk(status) == status >= 200 /\ status <= 299

\* CommentsApiService.deleteComment on the response: "resolved" when the
\* promise is fulfilled, "rejected" when it throws
deleteCommentApi(status) == IF ~ResponseOk(status) THEN "rejected" ELSE "resolved"
\* CommentsApiService.updateComment on the response
updateCommentApi(status) == IF ~ResponseOk(status) THEN "rejected" ELSE "resolved"

\* the ids updateComment and deleteComment are called with: those of the list
\* and ids that are not, or no longer, in it
EditIds == {comments[i].id : i \in DOMAIN comments}
           \cup {RemoteId(n) : n \in 1..MaxRemote} \cup {TempId(n) : n \in Stamps}
\* !comment?.backendId
hasNoBackendId(list, id) ==
    \/ ~ \E i \in DOMAIN list : list[i].id = id
    \/ ~Truthy(FindById(list, id).backendId)

\* deleteComment(id) of useComments, from the call to the settling of its
\* promise: it returns early without a backendId, otherwise awaits the
\* DELETE request and rethrows its error; it calls no updater
DeleteComment ==
    /\ \E id \in EditIds :
          IF hasNoBackendId(comments, id)
          THEN last' = [op |-> "deleteComment", id |-> id, requested |-> FALSE,
                        status |-> 0, outcome |-> "resolved"]
          ELSE \E status \in EditStatuses :
                  last' = [op |-> "deleteComment", id |-> id, requested |-> TRUE,
                           status |-> status, outcome |-> deleteCommentApi(status)]
    /\ UNCHANGED <<comments, loading, error, clock, allocated, saves, loads, persisted>>

\* updateComment(id, text) of useComments, likewise
UpdateComment ==
    /\ \E id \in EditIds :
          IF hasNoBackendId(comments, id)
          THEN last' = [op |-> "updateComment", id |-> id, requested |-> FALSE,
                        status |-> 0, outcome |-> "resolved"]
          ELSE \E status \in EditStatuses :
                  last' = [op |-> "updateComment", id |-> id, requested |-> TRUE,
                           status |-> status, outcome |-> updateCommentApi(status)]
    /\ UNCHANGED <<comments, loading, error, clock, allocated, saves, loads, persisted>>

\* another client of the dashboard creates a comment
RemoteCreate ==
    /\ allocated < MaxRemote
    /\ allocated' = allocated + 1
    /\ UNCHANGED <<comments, loading, error, clock, saves, loads, persisted, last>>

\* ------------------------------------------------------------------------
\* useCommentsWebSocket ws.onmessage: the store's side of a frame
\* ------------------------------------------------------------------------
\* the switch as it would be were its default branch to reset the list
applyFrameResettingOnUnknown(prev, message) ==
    IF message.type = "comment_created" THEN handleCommentCreated(prev, message.data)
    ELSE IF message.type = "comment_updated" THEN handleCommentUpdated(prev, message.data)
    ELSE IF message.type = "comment_deleted" THEN handleCommentDeleted(prev, message.data.comment_id)
    ELSE <<>>

applyFrame(prev, message) ==
    IF message.type = "comment_created" THEN handleCommentCreated(prev, message.data)
    ELSE IF message.type = "comment_updated" THEN handleCommentUpdated(prev, message.data)
    ELSE IF message.type = "comment_deleted" THEN handleCommentDeleted(prev, message.data.comment_id)
    ELSE prev

\* a createComment call whose record's creation frame was handled before its response
MarkEchoed(s, message) ==
    IF s.ok /\ message.type = "comment_created" /\ FrameRid(message) = s.rec.rid
    THEN [s EXCEPT !.echoed = TRUE] ELSE s

OnMessage ==
    /\ \E message \in Frames :
          /\ comments' = applyFrame(comments, message)
          /\ saves' = {MarkEchoed(s, message) : s \in saves}
          /\ last' = [op |-> message.type, id |-> FrameRid(message)]
    /\ UNCHANGED <<loading, error, clock, allocated, loads, persisted>>

\* the types the switch of ws.onmessage knows
FrameOps == {"comment_created", "comment_updated", "comment_deleted"}

\* what a socket of the comments stream delivers: event.data that may not
\* parse (json FALSE), and a parsed message that may lack its data property
\* (hasData FALSE) or carry a type the switch does not know
UnknownCommentFrame == [type |-> "comment_pinned", data |-> [comment_id |-> RemoteId(1)]]
RawFrames ==
    {[json |-> TRUE, hasData |-> TRUE, message |-> m] : m \in Frames \cup {UnknownCommentFrame}}
    \cup {[json |-> TRUE, hasData |-> FALSE,
           message |-> [type |-> t, data |-> [comment_id |-> UNDEF]]] : t \in FrameOps}
    \cup {[json |-> FALSE, hasData |-> FALSE,
           message |-> [type |-> UNDEF, data |-> [comment_id |-> UNDEF]]]}

\* ws.onmessage of useCommentsWebSocket with the handlers of useComments:
\* JSON.parse throws on text that is not JSON, and reading a property of an
\* absent data throws in the handler; the catch block logs either
commentsOnMessage(prev, raw) ==
    IF ~raw.json THEN prev
    ELSE IF raw.message.type \in FrameOps /\ ~raw.hasData THEN prev
    ELSE applyFrame(prev, raw.message)

\* ------------------------------------------------------------------------
\* The stream connections: useCommentsWebSocket and useChatWebSocket
\* ------------------------------------------------------------------------
VARIABLES
    stream,                 \* which hook: "comments" or "chat"
    hookState,              \* "new" (rendered, effect not yet run), "mounted", "unmounted"
    gen,                    \* number of runs of the connection effect so far
    sockets,                \* the WebSocket objects whose close event is still to come
    wsRef,                  \* wsRef.current: a socket, 0 for null, Gone for a closed socket
    timers,                 \* the setTimeout callbacks still to run, in the order set
    reconnectTimeoutRef,    \* reconnectTimeoutRef.current: a timer, 0 for none, Gone for
                            \* the handle of a timer that ran or was cleared
    reconnectAttemptsRef,   \* reconnectAttemptsRef.current
    isConnected,            \* useChatWebSocket: isConnected state
    chatError,              \* useChatWebSocket: error state
    sendChatWsEvent,        \* whether window.sendChatWsEvent is defined
    delays,                 \* history: the delays scheduled since the last open event
    autoAttempts,           \* history: connections made by timers since the last open event
    reconnectCalls,         \* history: calls of the exposed reconnect()
    lastSend                \* history: the last call of sendMessage or window.sendChatWsEvent
                            \* (result: the value returned, as JSON text)

wsVars == <<stream, hookState, gen, sockets, wsRef, timers, reconnectTimeoutRef,
            reconnectAttemptsRef, isConnected, chatError, sendChatWsEvent,
            delays, autoAttempts, reconnectCalls, lastSend>>

\* connections started in one session besides the one of the mount: changes of
\* dashboardId (re-runs of the connection effect) and calls of the exposed
\* reconnect()
MaxRestarts == 1
Restarts == (gen - 1) + reconnectCalls

maxReconnectAttempts == 5

RECURSIVE Pow2(_)
Pow2(n) == IF n = 0 THEN 1 ELSE 2 * Pow2(n - 1)
Min(a, b) == IF a < b THEN a ELSE b
\* Math.min(1000 * Math.pow(2, n), 10000)
Backoff(n) == Min(1000 * Pow2(n), 10000)

\* a reference to an object that is no longer among sockets or timers
Gone == -1
\* readyState CONNECTING or OPEN
Live(s) == s.state \in {"CONNECTING", "OPEN"}
\* a socket and the timer its close event sets carry the same identity, and so
\* does the socket that timer creates; a new WebSocket made by the effect or by
\* reconnect() takes the smallest identity not in use
PendingTimers == {timers[i] : i \in DOMAIN timers}
UsedIds == {s.id : s \in sockets} \cup {t.id : t \in PendingTimers}
FreshId == CHOOSE n \in 1..(Cardinality(UsedIds) + 1) :
              n \notin UsedIds /\ \A m \in 1..(n - 1) : m \in UsedIds

\* the refs and states of a hook before its first effect run
WsRefsInit ==
    /\ hookState = "new"
    /\ gen = 0
    /\ sockets = {}
    /\ wsRef = 0
    /\ timers = <<>>
    /\ reconnectTimeoutRef = 0
    /\ reconnectAttemptsRef = 0
    /\ isConnected = FALSE
    /\ chatError = "null"
    /\ sendChatWsEvent = FALSE
    /\ delays = <<>>
    /\ autoAttempts = 0
    /\ reconnectCalls = 0
    /\ lastSend = [fn |-> "none"]

WsInit == stream \in {"comments", "chat"} /\ WsRefsInit

\* new WebSocket(wsUrl) in connect() / connectWebSocket() of effect run g
newSocket(id, g) == [id |-> id, state |-> "CONNECTING", gen |-> g]

\* ws.close() on the socket wsRef.current
closeCurrent(set) ==
    {IF s.id = wsRef /\ Live(s) THEN [s EXCEPT !.state = "CLOSING"] ELSE s : s \in set}

\* clearTimeout(reconnectTimeoutRef.current)
NotTheReconnectTimeout(t) == t.id # reconnectTimeoutRef
clearReconnectTimeout == SelectSeq(timers, NotTheReconnectTimeout)
clearedRef == IF reconnectTimeoutRef = 0 THEN 0 ELSE Gone

\* the cleanup deletes window.sendChatWsEvent when wsRef.current is set
cleanupSendChatWsEvent == IF stream = "chat" /\ wsRef # 0 THEN FALSE ELSE sendChatWsEvent

\* the effect runs for the first time
Mount ==
    /\ hookState = "new"
    /\ hookState' = "mounted"
    /\ gen' = 1
    /\ sockets' = sockets \cup {newSocket(FreshId, 1)}
    /\ wsRef' = FreshId
    /\ UNCHANGED <<stream, timers, reconnectTimeoutRef, reconnectAttemptsRef, isConnected,
                   chatError, sendChatWsEvent, delays, autoAttempts, reconnectCalls, lastSend>>

\* dashboardId changes: the cleanup of the previous run, then the effect again
ChangeRoom ==
    /\ hookState = "mounted"
    /\ Restarts < MaxRestarts
    /\ gen' = gen + 1
    /\ timers' = clearReconnectTimeout
    /\ reconnectTimeoutRef' = clearedRef
    /\ sockets' = closeCurrent(sockets) \cup {newSocket(FreshId, gen + 1)}
    /\ wsRef' = FreshId
    /\ sendChatWsEvent' = cleanupSendChatWsEvent
    /\ UNCHANGED <<stream, hookState, reconnectAttemptsRef, isConnected,
                   chatError, delays, autoAttempts, reconnectCalls, lastSend>>

\* the component unmounts: the cleanup of the effect
Unmount ==
    /\ hookState = "mounted"
    /\ hookState' = "unmounted"
    /\ timers' = clearReconnectTimeout
    /\ reconnectTimeoutRef' = clearedRef
    /\ sockets' = closeCurrent(sockets)
    /\ wsRef' = 0
    /\ sendChatWsEvent' = cleanupSendChatWsEvent
    /\ UNCHANGED <<stream, gen, reconnectAttemptsRef, isConnected,
                   chatError, delays, autoAttempts, reconnectCalls, lastSend>>

\* the reconnect the comments hook returns (reconnect: connect), called by its consumer
Reconnect ==
    /\ stream = "comments"
    /\ hookState = "mounted"
    /\ Restarts < MaxRestarts
    /\ reconnectCalls' = reconnectCalls + 1
    /\ sockets' = sockets \cup {newSocket(FreshId, gen)}
    /\ wsRef' = FreshId
    /\ UNCHANGED <<stream, hookState, gen, timers, reconnectTimeoutRef, reconnectAttemptsRef,
                   isConnected, chatError, sendChatWsEvent, delays, autoAttempts, lastSend>>

\* React drops a state update of an unmounted component
setState(current, value) == IF hookState = "mounted" THEN value ELSE current

\* ws.onopen
OnOpen ==
    \E s \in sockets :
        /\ s.state = "CONNECTING"
        /\ sockets' = (sockets \ {s}) \cup {[s EXCEPT !.state = "OPEN"]}
        /\ reconnectAttemptsRef' = 0
        /\ IF stream = "chat"
           THEN /\ isConnected' = setState(isConnected, TRUE)
                /\ chatError' = setState(chatError, "null")
                /\ sendChatWsEvent' = TRUE
           ELSE UNCHANGED <<isConnected, chatError, sendChatWsEvent>>
        /\ delays' = <<>>
        /\ autoAttempts' = 0
        /\ UNCHANGED <<stream, hookState, gen, wsRef, timers, reconnectTimeoutRef,
                       reconnectCalls, lastSend>>

\* the handler as it would be were it to close the socket on an error
OnErrorClosing ==
    \E s \in sockets :
        /\ sockets' = {IF t = s /\ Live(t) THEN [t EXCEPT !.state = "CLOSING"] ELSE t : t \in sockets}
        /\ chatError' = IF stream = "chat" THEN setState(chatError, "Connection error")
                        ELSE chatError
        /\ UNCHANGED <<stream, hookState, gen, wsRef, timers,
                       reconnectTimeoutRef, reconnectAttemptsRef, isConnected, sendChatWsEvent,
                       delays, autoAttempts, reconnectCalls, lastSend>>

\* ws.onerror
OnError ==
    \E s \in sockets :
        /\ chatError' = IF stream = "chat" THEN setState(chatError, "Connection error")
                        ELSE chatError
        /\ UNCHANGED <<stream, hookState, gen, sockets, wsRef, timers,
                       reconnectTimeoutRef, reconnectAttemptsRef, isConnected, sendChatWsEvent,
                       delays, autoAttempts, reconnectCalls, lastSend>>

\* the delay as it would be were it computed before the increment
commentsDelayBeforeIncrement(attempts) == Backoff(attempts - 1)
\* the delay ws.onclose of useCommentsWebSocket computes, after its increment
commentsDelay(attempts) == Backoff(attempts)
\* the delay ws.onclose of useChatWebSocket computes, before the timer's increment
chatDelay(attempts) == Backoff(attempts)

\* ws.onclose of useCommentsWebSocket
CommentsOnClose(s) ==
    /\ wsRef' = 0
    /\ IF reconnectAttemptsRef < maxReconnectAttempts
       THEN /\ reconnectAttemptsRef' = reconnectAttemptsRef + 1
            /\ timers' = Append(timers, [id |-> s.id, gen |-> s.gen,
                                          delay |-> commentsDelay(reconnectAttemptsRef + 1)])
            /\ reconnectTimeoutRef' = s.id
            /\ delays' = Append(delays, commentsDelay(reconnectAttemptsRef + 1))
       ELSE UNCHANGED <<reconnectAttemptsRef, timers, reconnectTimeoutRef, delays>>
    /\ UNCHANGED <<isConnected, chatError>>

\* ws.onclose of useChatWebSocket
ChatOnClose(s) ==
    /\ isConnected' = setState(isConnected, FALSE)
    /\ wsRef' = IF wsRef = s.id THEN Gone ELSE wsRef
    /\ IF reconnectAttemptsRef < 5
       THEN /\ timers' = Append(timers, [id |-> s.id, gen |-> s.gen,
                                          delay |-> chatDelay(reconnectAttemptsRef)])
            /\ reconnectTimeoutRef' = s.id
            /\ delays' = Append(delays, chatDelay(reconnectAttemptsRef))
            /\ UNCHANGED chatError
       ELSE /\ chatError' = setState(chatError, "Failed to connect after multiple attempts")
            /\ UNCHANGED <<timers, reconnectTimeoutRef, delays>>
    /\ UNCHANGED reconnectAttemptsRef

\* what the consumer of the hook sees of an exhausted retry budget: the chat
\* hook returns its error state; the comments hook only writes to the console
\* and returns isConnected and reconnect
failedToConnectSignal ==
    IF stream = "chat" THEN chatError = "Failed to connect after multiple attempts"
    ELSE FALSE

\* the close event of a socket: the connection failed or was lost, or a
\* close() completed
OnClose ==
    \E s \in sockets :
        /\ sockets' = sockets \ {s}
        /\ IF stream = "comments" THEN CommentsOnClose(s) ELSE ChatOnClose(s)
        /\ UNCHANGED <<stream, hookState, gen, sendChatWsEvent, autoAttempts, reconnectCalls, lastSend>>

\* the sequence without its i-th element
RemoveAt(seq, i) == [k \in 1..(Len(seq) - 1) |-> IF k < i THEN seq[k] ELSE seq[k + 1]]

\* the setTimeout callback of ws.onclose: connect() of the run that made the
\* socket; a timer set earlier with a delay that is not longer runs first
TimerFire ==
    \E i \in DOMAIN timers :
        /\ \A j \in 1..(i - 1) : timers[j].delay > timers[i].delay
        /\ timers' = RemoveAt(timers, i)
        /\ reconnectTimeoutRef' = IF reconnectTimeoutRef = timers[i].id THEN Gone
                                  ELSE reconnectTimeoutRef
        /\ reconnectAttemptsRef' = IF stream = "chat" THEN reconnectAttemptsRef + 1
                                   ELSE reconnectAttemptsRef
        /\ sockets' = sockets \cup {newSocket(timers[i].id, timers[i].gen)}
        /\ wsRef' = timers[i].id
        /\ autoAttempts' = autoAttempts + 1
        /\ UNCHANGED <<stream, hookState, gen, isConnected, chatError,
                       sendChatWsEvent, delays, reconnectCalls, lastSend>>

\* ------------------------------------------------------------------------
\* useCommentsWebSocket: the isConnected it returns
\* ------------------------------------------------------------------------
VARIABLE
    renderedIsConnected     \* the isConnected the comments hook returned at its last render

renderVars == <<renderedIsConnected>>

RenderInit == renderedIsConnected = FALSE

\* wsRef.current?.readyState === WebSocket.OPEN
refIsOpen == wsRef # 0 /\ wsRef # Gone /\ \E s \in sockets : s.id = wsRef /\ s.state = "OPEN"

\* the component that uses the comments hook renders again (its own state or
\* its props changed): the hook computes isConnected from the ref
Render ==
    /\ stream = "comments"
    /\ hookState = "mounted"
    /\ renderedIsConnected' = refIsOpen

\* the render that precedes a run of the connection effect
renderBeforeEffect ==
    renderedIsConnected' = IF stream = "comments" THEN refIsOpen ELSE renderedIsConnected

\* the connected indicator the consumer of the hook has
connectedIndicator == IF stream = "chat" THEN isConnected ELSE renderedIsConnected

\* ------------------------------------------------------------------------
\* useChatWebSocket: outbound frames
\* ------------------------------------------------------------------------
\* the texts a user submits, as sequences of characters
ChatInputs == {<<" ">>, <<"h", "i">>, <<" ", "h", "i", " ">>}

\* String.prototype.trim
RECURSIVE TrimStart(_)
TrimStart(str) == IF str # <<>> /\ Head(str) = " " THEN TrimStart(Tail(str)) ELSE str
RECURSIVE TrimEnd(_)
TrimEnd(str) ==
    IF str # <<>> /\ str[Len(str)] = " " THEN TrimEnd(SubSeq(str, 1, Len(str) - 1)) ELSE str
Trim(str) == TrimEnd(TrimStart(str))

\* wsRef.current.readyState, "null" when wsRef.current is null
ReadyState ==
    IF wsRef = 0 THEN "null"
    ELSE IF wsRef = Gone THEN "CLOSED"
    ELSE (CHOOSE s \in sockets : s.id = wsRef).state

\* the guard of sendMessage and of window.sendChatWsEvent
notOpen == wsRef = 0 \/ ReadyState # "OPEN"

\* sendMessage(message) of useChatWebSocket
SendMessage ==
    /\ stream = "chat"
    /\ \E message \in ChatInputs :
          IF notOpen
          THEN /\ chatError' = setState(chatError, "Not connected to chat")
               /\ lastSend' = [fn |-> "sendMessage", readyState |-> ReadyState,
                               result |-> "false", frame |-> UNDEF]
          ELSE IF Trim(message) = <<>>
          THEN /\ lastSend' = [fn |-> "sendMessage", readyState |-> ReadyState,
                               result |-> "false", frame |-> UNDEF]
               /\ UNCHANGED chatError
          ELSE /\ lastSend' = [fn |-> "sendMessage", readyState |-> ReadyState,
                               result |-> "true",
                               frame |-> [type |-> "chat_message",
                                          data |-> [message |-> Trim(message)]]]
               /\ UNCHANGED chatError
    /\ UNCHANGED <<stream, hookState, gen, sockets, wsRef, timers, reconnectTimeoutRef,
                   reconnectAttemptsRef, isConnected, sendChatWsEvent, delays,
                   autoAttempts, reconnectCalls>>

\* window.sendChatWsEvent(type, data), callable while it is defined
SendChatWsEvent ==
    /\ stream = "chat"
    /\ sendChatWsEvent
    /\ \E type \in {"comment_created"} :
          IF notOpen
          THEN lastSend' = [fn |-> "sendChatWsEvent", readyState |-> ReadyState,
                            result |-> "false", frame |-> UNDEF]
          ELSE lastSend' = [fn |-> "sendChatWsEvent", readyState |-> ReadyState,
                            result |-> "true", frame |-> [type |-> type, data |-> "data"]]
    /\ UNCHANGED <<stream, hookState, gen, sockets, wsRef, timers, reconnectTimeoutRef,
                   reconnectAttemptsRef, isConnected, chatError, sendChatWsEvent, delays,
                   autoAttempts, reconnectCalls>>

\* ------------------------------------------------------------------------
\* ChatApiService (the chatApi singleton)
\* ------------------------------------------------------------------------
VARIABLES
    apiWs,          \* this.ws: a socket, 0 for null, Gone for a closed socket
    apiSockets,     \* the WebSocket objects of the service whose close event is still to come
    apiConnection,  \* the last value given to the connection handlers, "none" before any
    apiMessages,    \* the messages given to the message handlers, in order
    apiLastSend     \* history: the last call of sendMessage

apiVars == <<apiWs, apiSockets, apiConnection, apiMessages, apiLastSend>>

\* sockets of the service in existence at once
MaxApiSockets == 2
\* messages given to the message handlers in one session
MaxApiMessages == 2

ApiInit ==
    /\ apiWs = 0
    /\ apiSockets = {}
    /\ apiConnection = "none"
    /\ apiMessages = <<>>
    /\ apiLastSend = [fn |-> "none"]

ApiFreshId == CHOOSE n \in 1..(Cardinality(apiSockets) + 1) :
                  /\ \A s \in apiSockets : s.id # n
                  /\ \A m \in 1..(n - 1) : \E s \in apiSockets : s.id = m

\* this.ws.readyState, "null" when this.ws is null
ApiReadyState ==
    IF apiWs = 0 THEN "null"
    ELSE IF apiWs = Gone THEN "CLOSED"
    ELSE (CHOOSE s \in apiSockets : s.id = apiWs).state

\* this.ws.close()
apiCloseCurrent ==
    {IF s.id = apiWs /\ Live(s) THEN [s EXCEPT !.state = "CLOSING"] ELSE s : s \in apiSockets}

\* connectToRoom(dashboardId, userId, username)
ConnectToRoom ==
    /\ Cardinality(apiSockets) < MaxApiSockets
    /\ apiSockets' = apiCloseCurrent \cup {[id |-> ApiFreshId, state |-> "CONNECTING"]}
    /\ apiWs' = ApiFreshId
    /\ UNCHANGED <<apiConnection, apiMessages, apiLastSend>>

\* disconnect()
ApiDisconnect ==
    /\ apiWs # 0
    /\ apiSockets' = apiCloseCurrent
    /\ apiWs' = 0
    /\ UNCHANGED <<apiConnection, apiMessages, apiLastSend>>

\* this.ws.onopen
ApiOnOpen ==
    \E s \in apiSockets :
        /\ s.state = "CONNECTING"
        /\ apiSockets' = (apiSockets \ {s}) \cup {[s EXCEPT !.state = "OPEN"]}
        /\ apiConnection' = TRUE
        /\ UNCHANGED <<apiWs, apiMessages, apiLastSend>>

\* this.ws.onerror
ApiOnError ==
    \E s \in apiSockets :
        /\ apiConnection' = FALSE
        /\ UNCHANGED <<apiWs, apiSockets, apiMessages, apiLastSend>>

\* this.ws.onclose
ApiOnClose ==
    \E s \in apiSockets :
        /\ apiSockets' = apiSockets \ {s}
        /\ apiWs' = IF apiWs = s.id THEN Gone ELSE apiWs
        /\ apiConnection' = FALSE
        /\ UNCHANGED <<apiMessages, apiLastSend>>

\* sendMessage(message, userId, username, dashboardId): declared void, it
\* returns undefined on both branches
ApiSendMessage ==
    \E message \in ChatInputs :
        IF apiWs # 0 /\ ApiReadyState = "OPEN"
        THEN /\ Len(apiMessages) < MaxApiMessages
             /\ apiMessages' = Append(apiMessages, [id |-> "temp", content |-> message])
             /\ apiLastSend' = [fn |-> "sendMessage", readyState |-> ApiReadyState,
                                result |-> UNDEF, notified |-> TRUE,
                                frame |-> [type |-> "chat_message",
                                           data |-> [content |-> message,
                                                     message_type |-> "text"]]]
             /\ UNCHANGED <<apiWs, apiSockets, apiConnection>>
        ELSE /\ apiLastSend' = [fn |-> "sendMessage", readyState |-> ApiReadyState,
                                result |-> UNDEF, notified |-> FALSE, frame |-> UNDEF]
             /\ UNCHANGED <<apiWs, apiSockets, apiConnection, apiMessages>>

\* ------------------------------------------------------------------------
\* useChatWebSocket: the messages list, the connected users and the REST
\* calls that fill them
\* ------------------------------------------------------------------------
VARIABLES
    messages,        \* useChatWebSocket: messages state (a list of ChatMessage)
    connectedUsers,  \* useChatWebSocket: connectedUsers state; isArray is FALSE
                     \* when the state holds undefined
    historyCalls,    \* loadHistory calls awaiting their response
    userCalls,       \* fetchConnectedUsers calls awaiting their response
    dispatched,      \* number of comment_created events dispatched on window
    chatLast         \* history: the last frame handled or REST response applied

chatVars == <<messages, connectedUsers, historyCalls, userCalls, dispatched, chatLast>>

\* length of the messages list up to which a frame appends to it
MaxMessages == 2
\* fetchConnectedUsers calls of one run of the effect awaiting their response
\* at once
MaxUserCalls == 2

\* identifiers the chat service gives its messages
ChatMessageIds == {"m1", "m2"}
Usernames == {"ann"}
\* the lists of users the chat service reports
UserLists == {<<>>, <<"ann">>}

NoData == [id |-> UNDEF, username |-> UNDEF, content |-> UNDEF, users |-> <<>>]
\* an inbound frame of the chat stream: json tells whether event.data parses,
\* hasData whether the parsed value has a data property
Frame(type, hasData, data, message) ==
    [json |-> TRUE, type |-> type, hasData |-> hasData, data |-> data, message |-> message]
ChatFrames ==
    {[json |-> FALSE, type |-> UNDEF, hasData |-> FALSE, data |-> NoData, message |-> UNDEF]}
    \cup {Frame("chat_message", TRUE, [NoData EXCEPT !.id = id, !.username = u, !.content = "hi"], UNDEF) :
            id \in ChatMessageIds, u \in Usernames}
    \cup {Frame(t, TRUE, [NoData EXCEPT !.username = u], UNDEF) :
            t \in {"user_joined", "user_left"}, u \in Usernames}
    \cup {Frame("users_list", TRUE, [NoData EXCEPT !.users = l], UNDEF) : l \in UserLists}
    \cup {Frame("error", FALSE, NoData, "Room is full")}
    \cup {Frame("comment_created", TRUE, NoData, UNDEF)}
    \cup {Frame("typing", TRUE, NoData, UNDEF)}
    \cup {Frame(t, FALSE, NoData, UNDEF) :
            t \in {"chat_message", "user_joined", "user_left", "users_list"}}

\* the lists of messages GET /chat/messages/{dashboardId} answers with
HistoryBodies ==
    {<<>>}
    \cup {<<[id |-> "m1", username |-> u, content |-> "hi", message_type |-> "text"]>> :
            u \in Usernames}

\* the ChatMessage ws.onmessage builds from a chat_message frame
chatMessageOf(data) ==
    [id |-> data.id, username |-> data.username, message |-> data.content,
     message_type |-> "user"]
\* the ChatMessage ws.onmessage builds from a user_joined / user_left frame
systemMessageOf(type, data, now) ==
    [id |-> "system-" \o ToString(now), username |-> "System",
     message |-> data.username \o (IF type = "user_joined" THEN " joined the chat"
                                   ELSE " left the chat"),
     message_type |-> "system"]
\* the ChatMessage loadHistory builds from a message of the history
mappedMessage(msg) ==
    [id |-> msg.id, username |-> msg.username, message |-> msg.content,
     message_type |-> IF msg.message_type = "system" THEN "system" ELSE "user"]
mappedMessages(body) == [i \in DOMAIN body |-> mappedMessage(body[i])]

ChatStoreInit ==
    /\ messages = <<>>
    /\ connectedUsers = [isArray |-> TRUE, items |-> <<>>]
    /\ historyCalls = {}
    /\ userCalls = {}
    /\ dispatched = 0
    /\ chatLast = [op |-> "none"]

\* fetchConnectedUsers() of effect run g up to its await
\* the calls of a run that await their response are numbered in the order in
\* which they were made
nextUserCall(calls, g) ==
    LET pending == {c.n : c \in {d \in calls : d.gen = g}}
    IN  IF pending = {} THEN 1 ELSE 1 + CHOOSE k \in pending : \A m \in pending : m <= k
callUsers(calls, g) == calls \cup {[gen |-> g, n |-> nextUserCall(calls, g)]}
canCallUsers(calls, g) == nextUserCall(calls, g) <= MaxUserCalls

\* the two effects of useChatWebSocket run for the first time
ChatMount ==
    /\ stream = "chat"
    /\ Mount
    /\ historyCalls' = historyCalls \cup {[gen |-> 1]}
    /\ userCalls' = callUsers(userCalls, 1)
    /\ UNCHANGED <<messages, connectedUsers, dispatched, chatLast>>

\* dashboardId changes: the cleanup of the connection effect, then both
\* effects again; the messages and connectedUsers states are kept
ChatChangeRoom ==
    /\ stream = "chat"
    /\ ChangeRoom
    /\ historyCalls' = historyCalls \cup {[gen |-> gen + 1]}
    /\ userCalls' = callUsers(userCalls, gen + 1)
    /\ UNCHANGED <<messages, connectedUsers, dispatched, chatLast>>

\* loadHistory after its await
HistoryResponse ==
    \E c \in historyCalls, ok \in BOOLEAN :
      \E body \in IF ok THEN HistoryBodies ELSE {<<>>} :
        /\ historyCalls' = historyCalls \ {c}
        /\ messages' = IF ok THEN setState(messages, mappedMessages(body)) ELSE messages
        /\ chatLast' = [op |-> "loadHistory", gen |-> c.gen, ok |-> ok]
        /\ UNCHANGED <<connectedUsers, userCalls, dispatched>>

\* fetchConnectedUsers after its await: data.users || []
UsersResponse ==
    \E c \in userCalls, ok \in BOOLEAN :
      \E users \in IF ok THEN UserLists ELSE {<<>>} :
        /\ userCalls' = userCalls \ {c}
        /\ connectedUsers' = IF ok THEN setState(connectedUsers, [isArray |-> TRUE, items |-> users])
                             ELSE connectedUsers
        /\ chatLast' = [op |-> "fetchConnectedUsers", gen |-> c.gen, n |-> c.n, ok |-> ok]
        /\ UNCHANGED <<messages, historyCalls, dispatched>>

\* the branch as it would be were it to add the user who joined to the list
\* and take the user who left out of it
usersAfterPresenceEventPatched(prev, type, data) ==
    LET Others(u) == u # data.username
    IN  [prev EXCEPT !.items = IF type = "user_joined" THEN Append(@, data.username)
                                ELSE SelectSeq(@, Others)]

\* connectedUsers after the user_joined / user_left branch, which calls
\* setMessages and fetchConnectedUsers and never setConnectedUsers
usersAfterPresenceEvent(prev, type, data) == prev

\* ws.onmessage of useChatWebSocket on an open socket: what the handler does
\* with frame f when it belongs to effect run g
chatOnMessage(f, g) ==
    IF ~f.json
    THEN UNCHANGED <<messages, connectedUsers, userCalls, dispatched, chatError>>
    ELSE IF f.type = "chat_message"
    THEN /\ messages' = IF f.hasData THEN setState(messages, Append(messages, chatMessageOf(f.data)))
                        ELSE messages
         /\ UNCHANGED <<connectedUsers, userCalls, dispatched, chatError>>
    ELSE IF f.type \in {"user_joined", "user_left"}
    THEN IF f.hasData
         THEN /\ messages' = setState(messages,
                                      Append(messages, systemMessageOf(f.type, f.data, clock)))
              /\ userCalls' = callUsers(userCalls, g)
              /\ connectedUsers' = usersAfterPresenceEvent(connectedUsers, f.type, f.data)
              /\ UNCHANGED <<dispatched, chatError>>
         ELSE UNCHANGED <<messages, connectedUsers, userCalls, dispatched, chatError>>
    ELSE IF f.type = "comment_created"
    THEN /\ dispatched' = dispatched + 1
         /\ UNCHANGED <<messages, connectedUsers, userCalls, chatError>>
    ELSE IF f.type = "users_list"
    THEN /\ connectedUsers' = setState(connectedUsers,
                                       IF f.hasData THEN [isArray |-> TRUE, items |-> f.data.users]
                                       ELSE [isArray |-> FALSE, items |-> <<>>])
         /\ UNCHANGED <<messages, userCalls, dispatched, chatError>>
    ELSE IF f.type = "error"
    THEN /\ chatError' = setState(chatError, f.message)
         /\ UNCHANGED <<messages, connectedUsers, userCalls, dispatched>>
    ELSE UNCHANGED <<messages, connectedUsers, userCalls, dispatched, chatError>>

\* the frames taken while the bounds of the model leave room for their effect
withinBounds(f, g) ==
    /\ (f.json /\ f.hasData /\ f.type \in {"chat_message", "user_joined", "user_left"})
          => Len(messages) < MaxMessages
    /\ (f.json /\ f.hasData /\ f.type \in {"user_joined", "user_left"})
          => canCallUsers(userCalls, g)
    /\ (f.json /\ f.type = "comment_created") => dispatched < 1

ChatOnMessage ==
    /\ stream = "chat"
    /\ \E s \in sockets, f \in ChatFrames :
          /\ s.state = "OPEN"
          /\ withinBounds(f, s.gen)
          /\ chatOnMessage(f, s.gen)
          /\ chatLast' = [op |-> "onmessage", frame |-> f, gen |-> s.gen]
    /\ UNCHANGED historyCalls
    /\ UNCHANGED <<stream, hookState, gen, sockets, wsRef, timers, reconnectTimeoutRef,
                   reconnectAttemptsRef, isConnected, sendChatWsEvent, delays,
                   autoAttempts, reconnectCalls, lastSend>>

\* ws.onmessage of useCommentsWebSocket on an open socket
CommentsOnMessage ==
    /\ stream = "comments"
    /\ \E s \in sockets, raw \in RawFrames :
          /\ s.state = "OPEN"
          /\ comments' = commentsOnMessage(comments, raw)
          /\ last' = [op |-> "frame", json |-> raw.json, hasData |-> raw.hasData,
                      type |-> raw.message.type]
    /\ UNCHANGED <<loading, error, clock, allocated, saves, loads, persisted>>

VARIABLE
    lastEvent   \* history: the handler of a stream client that ran last

histVars == <<lastEvent>>
HistInit == lastEvent = "none"

vars == <<storeVars, wsVars, apiVars, chatVars, renderVars, histVars>>

Init == StoreInit /\ WsInit /\ ApiInit /\ ChatStoreInit /\ RenderInit /\ HistInit /\ stream = "comments"
Next ==
    \/ Tick /\ UNCHANGED <<wsVars, apiVars, chatVars, renderVars, histVars>>
    \/ CreateTemporaryComment /\ UNCHANGED <<wsVars, apiVars, chatVars, renderVars, histVars>>
    \/ SaveTemporaryCommentRequest /\ UNCHANGED <<wsVars, apiVars, chatVars, renderVars, histVars>>
    \/ SaveTemporaryCommentResponse /\ UNCHANGED <<wsVars, apiVars, chatVars, renderVars, histVars>>
    \/ CancelTemporaryComment /\ UNCHANGED <<wsVars, apiVars, chatVars, renderVars, histVars>>
    \/ UpdateCommentPosition /\ UNCHANGED <<wsVars, apiVars, chatVars, renderVars, histVars>>
    \/ LoadCommentsRequest /\ UNCHANGED <<wsVars, apiVars, chatVars, renderVars, histVars>>
    \/ LoadCommentsResponse /\ UNCHANGED <<wsVars, apiVars, chatVars, renderVars, histVars>>
    \/ RemoteCreate /\ UNCHANGED <<wsVars, apiVars, chatVars, renderVars, histVars>>
    \/ OnMessage /\ UNCHANGED <<wsVars, apiVars, chatVars, renderVars, histVars>>
Spec == Init /\ [][Next]_vars

InitWs == WsInit /\ StoreInit /\ ApiInit /\ ChatStoreInit /\ RenderInit /\ HistInit
NextWs ==
    \/ Mount /\ renderBeforeEffect /\ UNCHANGED <<storeVars, apiVars, chatVars, histVars>>
    \/ ChangeRoom /\ renderBeforeEffect /\ UNCHANGED <<storeVars, apiVars, chatVars, histVars>>
    \/ Unmount /\ UNCHANGED <<storeVars, apiVars, chatVars, renderVars, histVars>>
    \/ Reconnect /\ UNCHANGED <<storeVars, apiVars, chatVars, renderVars, histVars>>
    \/ OnOpen /\ UNCHANGED <<storeVars, apiVars, chatVars, renderVars, histVars>>
    \/ OnError /\ UNCHANGED <<storeVars, apiVars, chatVars, renderVars, histVars>>
    \/ OnClose /\ UNCHANGED <<storeVars, apiVars, chatVars, renderVars, histVars>>
    \/ TimerFire /\ UNCHANGED <<storeVars, apiVars, chatVars, renderVars, histVars>>
    \/ Render /\ UNCHANGED <<storeVars, apiVars, chatVars, wsVars, histVars>>
SpecWs == InitWs /\ [][NextWs]_vars

\* the chat hook with its outbound calls
InitChat == InitWs /\ stream = "chat"
NextChat ==
    \/ Mount /\ renderBeforeEffect /\ UNCHANGED <<storeVars, apiVars, chatVars, histVars>>
    \/ ChangeRoom /\ renderBeforeEffect /\ UNCHANGED <<storeVars, apiVars, chatVars, histVars>>
    \/ Unmount /\ UNCHANGED <<storeVars, apiVars, chatVars, renderVars, histVars>>
    \/ OnOpen /\ UNCHANGED <<storeVars, apiVars, chatVars, renderVars, histVars>>
    \/ OnError /\ UNCHANGED <<storeVars, apiVars, chatVars, renderVars, histVars>>
    \/ OnClose /\ UNCHANGED <<storeVars, apiVars, chatVars, renderVars, histVars>>
    \/ TimerFire /\ UNCHANGED <<storeVars, apiVars, chatVars, renderVars, histVars>>
    \/ SendMessage /\ UNCHANGED <<storeVars, apiVars, chatVars, renderVars, histVars>>
    \/ SendChatWsEvent /\ UNCHANGED <<storeVars, apiVars, chatVars, renderVars, histVars>>
SpecChat == InitChat /\ [][NextChat]_vars

\* the three clients of a stream, one per session: the comments hook, the
\* chat hook and the chatApi singleton ("service")
InitStreams ==
    /\ StoreInit /\ ApiInit /\ ChatStoreInit /\ RenderInit /\ HistInit /\ WsRefsInit
    /\ stream \in {"comments", "chat", "service"}
NextStreams ==
    \/ stream # "service" /\ Mount /\ renderBeforeEffect /\ lastEvent' = "mount" /\ UNCHANGED <<storeVars, apiVars, chatVars>>
    \/ stream # "service" /\ ChangeRoom /\ renderBeforeEffect /\ lastEvent' = "changeRoom" /\ UNCHANGED <<storeVars, apiVars, chatVars>>
    \/ stream # "service" /\ Unmount /\ lastEvent' = "unmount" /\ UNCHANGED <<storeVars, apiVars, chatVars, renderVars>>
    \/ stream # "service" /\ Reconnect /\ lastEvent' = "reconnect" /\ UNCHANGED <<storeVars, apiVars, chatVars, renderVars>>
    \/ stream # "service" /\ OnOpen /\ lastEvent' = "open" /\ UNCHANGED <<storeVars, apiVars, chatVars, renderVars>>
    \/ stream # "service" /\ OnError /\ lastEvent' = "error" /\ UNCHANGED <<storeVars, apiVars, chatVars, renderVars>>
    \/ stream # "service" /\ OnClose /\ lastEvent' = "close" /\ UNCHANGED <<storeVars, apiVars, chatVars, renderVars>>
    \/ stream # "service" /\ TimerFire /\ lastEvent' = "timer" /\ UNCHANGED <<storeVars, apiVars, chatVars, renderVars>>
    \/ stream # "service" /\ Render /\ lastEvent' = "render" /\ UNCHANGED <<storeVars, apiVars, chatVars, wsVars>>
    \/ stream = "service" /\ ConnectToRoom /\ lastEvent' = "connectToRoom" /\ UNCHANGED <<storeVars, wsVars, chatVars, renderVars>>
    \/ stream = "service" /\ ApiDisconnect /\ lastEvent' = "disconnect" /\ UNCHANGED <<storeVars, wsVars, chatVars, renderVars>>
    \/ stream = "service" /\ ApiOnOpen /\ lastEvent' = "open" /\ UNCHANGED <<storeVars, wsVars, chatVars, renderVars>>
    \/ stream = "service" /\ ApiOnError /\ lastEvent' = "error" /\ UNCHANGED <<storeVars, wsVars, chatVars, renderVars>>
    \/ stream = "service" /\ ApiOnClose /\ lastEvent' = "close" /\ UNCHANGED <<storeVars, wsVars, chatVars, renderVars>>
    \/ stream = "service" /\ ApiSendMessage /\ lastEvent' = "sendMessage" /\ UNCHANGED <<storeVars, wsVars, chatVars, renderVars>>
SpecStreams == InitStreams /\ [][NextStreams]_vars

\* the chatApi singleton
InitApi == StoreInit /\ WsInit /\ ApiInit /\ ChatStoreInit /\ RenderInit /\ HistInit /\ stream = "chat"
NextApi ==
    \/ ConnectToRoom /\ UNCHANGED <<storeVars, wsVars, chatVars, renderVars, histVars>>
    \/ ApiDisconnect /\ UNCHANGED <<storeVars, wsVars, chatVars, renderVars, histVars>>
    \/ ApiOnOpen /\ UNCHANGED <<storeVars, wsVars, chatVars, renderVars, histVars>>
    \/ ApiOnError /\ UNCHANGED <<storeVars, wsVars, chatVars, renderVars, histVars>>
    \/ ApiOnClose /\ UNCHANGED <<storeVars, wsVars, chatVars, renderVars, histVars>>
    \/ ApiSendMessage /\ UNCHANGED <<storeVars, wsVars, chatVars, renderVars, histVars>>
SpecApi == InitApi /\ [][NextApi]_vars

\* the comments store with the updateComment and deleteComment requests of its
\* consumer, for comments that arrive by the stream
NextEdit ==
    \/ CreateTemporaryComment /\ UNCHANGED <<wsVars, apiVars, chatVars, renderVars, histVars>>
    \/ RemoteCreate /\ UNCHANGED <<wsVars, apiVars, chatVars, renderVars, histVars>>
    \/ OnMessage /\ UNCHANGED <<wsVars, apiVars, chatVars, renderVars, histVars>>
    \/ UpdateComment /\ UNCHANGED <<wsVars, apiVars, chatVars, renderVars, histVars>>
    \/ DeleteComment /\ UNCHANGED <<wsVars, apiVars, chatVars, renderVars, histVars>>
SpecEdit == Init /\ [][NextEdit]_vars

\* the two hooks with their inbound frames, and the REST calls of the chat
\* hook, up to the first close event of a socket
InitInbound == InitWs
NextInbound ==
    \/ stream = "comments" /\ Mount /\ renderBeforeEffect /\ lastEvent' = "mount" /\ UNCHANGED <<storeVars, apiVars, chatVars>>
    \/ stream = "comments" /\ RemoteCreate /\ lastEvent' = "remoteCreate" /\ UNCHANGED <<wsVars, apiVars, chatVars, renderVars>>
    \/ CommentsOnMessage /\ lastEvent' = "message" /\ UNCHANGED <<wsVars, apiVars, chatVars, renderVars>>
    \/ ChatMount /\ lastEvent' = "mount" /\ UNCHANGED <<storeVars, apiVars, renderVars>>
    \/ ChatChangeRoom /\ lastEvent' = "changeRoom" /\ UNCHANGED <<storeVars, apiVars, renderVars>>
    \/ Unmount /\ lastEvent' = "unmount" /\ UNCHANGED <<storeVars, apiVars, chatVars, renderVars>>
    \/ OnOpen /\ lastEvent' = "open" /\ UNCHANGED <<storeVars, apiVars, chatVars, renderVars>>
    \/ ChatOnMessage /\ lastEvent' = "message" /\ UNCHANGED <<storeVars, apiVars, renderVars>>
    \/ HistoryResponse /\ lastEvent' = "response" /\ UNCHANGED <<storeVars, apiVars, wsVars, renderVars>>
    \/ UsersResponse /\ lastEvent' = "response" /\ UNCHANGED <<storeVars, apiVars, wsVars, renderVars>>
SpecInbound == InitInbound /\ [][NextInbound]_vars

\* ------------------------------------------------------------------------
\* Properties of the comments store
\* ------------------------------------------------------------------------
IsPending(c) == c.backendId = UNDEF

\* C1: no two entities of the store carry the same backendId
C1_NoDuplicateRemoteId ==
    \A i, j \in DOMAIN comments :
        (i # j /\ Truthy(comments[i].backendId)) => comments[i].backendId # comments[j].backendId

\* C2: when the creation frame of record r was handled while the createComment
\* call that created r was awaiting its response, then once the response is
\* applied the store holds exactly one entity with backendId r and the
\* temporary comment of that call is gone
C2_EchoBeforeResponse ==
    (last.op = "saveTemporaryComment" /\ last.echoed) =>
        /\ CountBackendId(comments, last.id) = 1
        /\ \A i \in DOMAIN comments : comments[i].id # last.tempId

\* C3: handling a frame twice in a row leaves the store as handling it once
C3_Idempotent ==
    \A message \in Frames :
        applyFrame(applyFrame(comments, message), message) = applyFrame(comments, message)

\* C4: when the creation frame of a record r arrives after the createComment
\* response put r in the store, the store afterwards holds exactly one entity
\* with backendId r, at the index it had
C4_EchoAfterResponse ==
    [][\A r \in persisted :
          (last'.op = "comment_created" /\ last'.id = r /\ CountBackendId(comments, r) = 1) =>
              /\ CountBackendId(comments', r) = 1
              /\ \A i \in DOMAIN comments :
                    comments[i].backendId = r =>
                        (i \in DOMAIN comments' /\ comments'[i].backendId = r)]_vars

\* every comment without backendId of list prev is in list next, with the same fields
PendingKept(prev, next) ==
    \A i \in DOMAIN prev :
        IsPending(prev[i]) => \E j \in DOMAIN next : next[j] = prev[i]

\* the records that createComment calls still awaiting their response created
InflightRids == {s.rec.rid : s \in {t \in saves : t.ok}}

\* C5: no frame of the stream about a record other than the one a pending
\* createComment call created, and no loadComments response, removes or
\* overwrites a comment that has no backendId
C5_PendingUntouched ==
    [][(\/ last'.op \in {"loadComments", "loadCommentsFailed"}
        \/ (last'.op \in FrameOps /\ last'.id \notin InflightRids)) =>
          PendingKept(comments, comments')]_vars


\* the frames of a type about record rid
FramesAbout(type, rid) == {m \in Frames : m.type = type /\ FrameRid(m) = rid}

\* C14: when a comment_updated frame arrives for a record that no entity of
\* the store carries, the store afterwards holds exactly one entity with that
\* backendId.
C14_UpdateInsertsMissing ==
    [][\A rid \in AllocatedIds :
          (last' = [op |-> "comment_updated", id |-> rid] /\ last' # last
              /\ CountBackendId(comments, rid) = 0) =>
          CountBackendId(comments', rid) = 1]_vars

\* list next is list prev with the entities of backendId rid, and only them,
\* overwritten by the frame's record
OverwrittenBy(prev, next, rid, message) ==
    /\ Len(next) = Len(prev)
    /\ \A i \in DOMAIN prev :
          IF prev[i].backendId = rid
          THEN /\ next[i].backendId = rid
               /\ next[i].text = message.data.content
               /\ next[i].x = message.data.coordinates[1]
               /\ next[i].y = message.data.coordinates[2]
          ELSE next[i] = prev[i]

\* C15: when a comment_updated frame arrives for a record that an entity of
\* the store carries, that entity takes the frame's text and coordinates at
\* its index, and all other entities stay as they were, in number and order.
C15_UpdateOverwritesInPlace ==
    [][\A rid \in AllocatedIds :
          (last' = [op |-> "comment_updated", id |-> rid] /\ last' # last
              /\ CountBackendId(comments, rid) >= 1) =>
          \E message \in FramesAbout("comment_updated", rid) :
              OverwrittenBy(comments, comments', rid, message)]_vars

\* list next is list prev without the entities of backendId rid, the others
\* in their order
RemovedExactly(prev, next, rid) ==
    LET kept == {i \in DOMAIN prev : prev[i].backendId # rid}
    IN  /\ Len(next) = Cardinality(kept)
        /\ \A i \in kept : next[Cardinality({k \in kept : k <= i})] = prev[i]

\* C16: a comment_deleted frame removes exactly the entities whose backendId
\* is the frame's comment_id and leaves the others and their order; when no
\* entity has that backendId the list is unchanged.
C16_DeleteRemovesExactly ==
    [][\A rid \in AllocatedIds :
          last' = [op |-> "comment_deleted", id |-> rid] =>
              /\ RemovedExactly(comments, comments', rid)
              /\ (CountBackendId(comments, rid) = 0 => comments' = comments)]_vars
\* a deletion frame for a record the store had taken from a createComment
\* response has been handled, and another entity is still in the store
C16_DeletedOneKeptOther ==
    /\ last.op = "comment_deleted"
    /\ last.id \in persisted
    /\ CountBackendId(comments, last.id) = 0
    /\ comments # <<>>

\* C17: when the createComment request of saveTemporaryComment fails, the
\* call rejects and the list is what it was: the temporary comment is still
\* there, at its index, with its fields.
C17_FailedSaveKeepsStore ==
    [][\A s \in saves :
          (~s.ok /\ saves' = saves \ {s}) =>
              /\ comments' = comments
              /\ last'.op = "saveTemporaryCommentFailed"
              /\ last'.outcome = "rejected"]_vars
\* a save has failed and its temporary comment is in the store
C17_FailedSaveSeen ==
    /\ last.op = "saveTemporaryCommentFailed"
    /\ \E i \in DOMAIN comments : comments[i].id = last.tempId /\ IsPending(comments[i])

\* C18: when the createComment request of saveTemporaryComment(tempId)
\* succeeds and the temporary comment is still in the list, exactly one entry
\* of the list changes: the one with that id, which takes the backendId the
\* service assigned; the length and the other entries are unchanged.
C18_SaveReplacesInPlace ==
    [][\A s \in saves :
          (s.ok /\ saves' = saves \ {s} /\ \E i \in DOMAIN comments : comments[i].id = s.tempId) =>
              /\ Len(comments') = Len(comments)
              /\ \E i \in DOMAIN comments :
                    /\ comments[i].id = s.tempId
                    /\ comments'[i].backendId = s.rec.rid
                    /\ \A j \in DOMAIN comments \ {i} : comments'[j] = comments[j]]_vars

\* C19: a call of createTemporaryComment appends one entity without backendId
\* whose id differs from the id of every entity already in the list.
C19_FreshLocalId ==
    [][(last'.op = "createTemporaryComment" /\ Len(comments') = Len(comments) + 1) =>
          /\ SubSeq(comments', 1, Len(comments)) = comments
          /\ IsPending(comments'[Len(comments')])
          /\ \A i \in DOMAIN comments : comments[i].id # comments'[Len(comments')].id]_vars

\* C20: cancelTemporaryComment(id) removes the entity of that id when it has
\* no backendId, and leaves the list unchanged when that entity has a
\* backendId or is not in the list.
C20_CancelOnlyPending ==
    [][(last'.op = "cancelTemporaryComment" /\ last' # last) =>
          IF \E i \in DOMAIN comments : comments[i].id = last'.id /\ IsPending(comments[i])
          THEN /\ \A j \in DOMAIN comments' : comments'[j].id # last'.id
               /\ Len(comments') < Len(comments)
          ELSE comments' = comments]_vars

\* ------------------------------------------------------------------------
\* Properties of the stream connections

IsPrefix(p, q) == Len(p) <= Len(q) /\ \A i \in 1..Len(p) : p[i] = q[i]
BackoffSequence == <<2000, 4000, 8000, 10000, 10000>>
\* the run g of the connection effect has been cleaned up
Disposed(g) == g < gen \/ (g = gen /\ hookState = "unmounted")
LiveSockets == {s \in sockets : Live(s)}

\* C6: once a run of the connection effect has been disposed, no reconnect
\* timer of that run is pending and no socket of that run is CONNECTING or
\* OPEN, in either stream, also after the close event of the socket that the
\* disposal closed (stated here for the sessions that never call reconnect()).
C6_DisposalIsFinal ==
    reconnectCalls = 0 =>
        /\ \A t \in PendingTimers : ~Disposed(t.gen)
        /\ \A s \in LiveSockets : ~Disposed(s.gen)

\* C7: at every moment at most one socket of the stream is CONNECTING or OPEN,
\* at most one reconnect timer is pending, and no socket is CONNECTING or OPEN
\* while a reconnect timer is pending.
C7_Serialized ==
    /\ Cardinality(LiveSockets) <= 1
    /\ Len(timers) <= 1
    /\ ~(LiveSockets # {} /\ timers # <<>>)

C9_ChatBackoff == stream = "chat" => IsPrefix(delays, BackoffSequence)

\* C10: between two open events at most 5 connections are made by reconnect
\* timers, in each stream.
C10_AtMostFiveAttempts == autoAttempts <= maxReconnectAttempts

\* the retry budget is used up: the counter is at its limit and neither a
\* socket nor a reconnect timer is left
Exhausted ==
    /\ hookState = "mounted"
    /\ reconnectAttemptsRef >= maxReconnectAttempts
    /\ sockets = {}
    /\ timers = <<>>

\* C11: a call of the comments stream's reconnect() made when the retry budget
\* is used up sets the attempt counter to 0 and leaves a new socket CONNECTING.
C11_ReconnectResets ==
    [][(Exhausted /\ reconnectCalls' = reconnectCalls + 1) =>
          /\ reconnectAttemptsRef' = 0
          /\ \E s \in sockets' : s.state = "CONNECTING"]_vars

\* C12: when the retry budget of a stream is used up, the consumer of the hook
\* sees the terminal "failed to connect" signal, in the chat stream and in the
\* comments stream.
C12_TerminalSignal == Exhausted => failedToConnectSignal

\* the socket the hook holds has been closed
refIsClosed == wsRef = Gone \/ (wsRef = 0 /\ gen > 0)

\* the indicator of a mounted hook is true while wsRef.current is OPEN and
\* false while it is closed
HookIndicatorAgrees ==
    hookState = "mounted" =>
        /\ refIsOpen => connectedIndicator
        /\ refIsClosed => ~connectedIndicator
\* the value last given to the connection handlers of ChatApiService is true
\* while this.ws is OPEN and false while it is closed
ApiIndicatorAgrees ==
    /\ (apiWs # 0 /\ ApiReadyState = "OPEN") => apiConnection = TRUE
    /\ apiWs = Gone => apiConnection = FALSE
\* the step is the open event of a socket
OpenStep == \E s \in sockets : s.state = "CONNECTING" /\ [s EXCEPT !.state = "OPEN"] \in sockets'

\* C27: every open event of a socket sets the attempt counter to 0, and the
\* connected indicator the consumer has is true whenever the current socket
\* is OPEN and false whenever it is closed: isConnected of useChatWebSocket,
\* isConnected of useCommentsWebSocket, and the value given to the connection
\* handlers of ChatApiService.
C27_ConnectedIndicator ==
    /\ [](HookIndicatorAgrees /\ ApiIndicatorAgrees)
    /\ [][OpenStep => reconnectAttemptsRef' = 0]_vars

\* C28: the error handler of a socket changes no socket, sets no reconnect
\* timer, leaves the attempt counter and the socket reference, and in the
\* chat hook and ChatApiService gives its signal ("Connection error",
\* connected = false); a reconnect timer is set by the close handler only.
\* For useCommentsWebSocket, useChatWebSocket and ChatApiService.
C28_ErrorOnlySignals ==
    [][/\ lastEvent' = "error" =>
             /\ UNCHANGED <<sockets, apiSockets, timers, reconnectTimeoutRef,
                            reconnectAttemptsRef, wsRef, apiWs>>
             /\ (stream = "chat" /\ hookState = "mounted") => chatError' = "Connection error"
             /\ stream = "service" => apiConnection' = FALSE
       /\ Len(timers') > Len(timers) => lastEvent' = "close"]_vars
\* the error handler has run for an open socket of the chat hook: the socket
\* is still open and the hook's reference, no timer is set, the signal is given
C28_ErrorOnOpenSocket ==
    /\ stream = "chat"
    /\ lastEvent = "error"
    /\ refIsOpen
    /\ timers = <<>>
    /\ reconnectAttemptsRef = 0
    /\ chatError = "Connection error"

\* ------------------------------------------------------------------------
\* Properties of the outbound calls

\* a call of sendMessage or window.sendChatWsEvent of the chat hook made while
\* the socket was not OPEN returned false and handed no frame to a socket
HookSendFailsWhenNotOpen ==
    (lastSend.fn # "none" /\ lastSend.readyState # "OPEN") =>
        (lastSend.result = "false" /\ lastSend.frame = UNDEF)

\* a call of ChatApiService.sendMessage made while the socket was not OPEN
\* returned false, handed no frame to a socket and gave the message handlers
\* no optimistic message
ApiSendFailsWhenNotOpen ==
    (apiLastSend.fn # "none" /\ apiLastSend.readyState # "OPEN") =>
        (apiLastSend.result = "false" /\ apiLastSend.frame = UNDEF /\ ~apiLastSend.notified)

\* C13: an outbound call made while the socket is absent, CONNECTING, CLOSING
\* or CLOSED returns false and transmits nothing, now or later, for
\* useChatWebSocket.sendMessage, window.sendChatWsEvent and
\* ChatApiService.sendMessage.
C13_SendWhileNotOpen == HookSendFailsWhenNotOpen /\ ApiSendFailsWhenNotOpen

\* ------------------------------------------------------------------------
\* Properties of the chat store

\* the positions of list that hold a message of the chat service with this id
PositionsOf(list, id) ==
    {i \in DOMAIN list : list[i].message_type = "user" /\ list[i].id = id}

\* C21: handling a chat_message frame whose message is already in the list
\* leaves the list as it is, so no id of the chat service appears twice in
\* the messages list.
C21_ChatIdempotent ==
    \A id \in ChatMessageIds : Cardinality(PositionsOf(messages, id)) <= 1

\* C22, for the two REST calls of the chat hook: the response of a
\* loadHistory or fetchConnectedUsers call issued by a run of the effect that
\* has since been disposed (the room was switched or the hook unmounted)
\* changes neither the messages list nor the connected users.
C22_StaleResultsDiscarded ==
    [][/\ \A c \in historyCalls :
             (Disposed(c.gen) /\ historyCalls' = historyCalls \ {c}) =>
                 (messages' = messages /\ connectedUsers' = connectedUsers)
       /\ \A c \in userCalls :
             (Disposed(c.gen) /\ userCalls' = userCalls \ {c}) =>
                 (messages' = messages /\ connectedUsers' = connectedUsers)]_vars

\* C25: when the comment list request is answered with 404,
\* getCommentsByDashboard returns the empty list, and loadComments sets no
\* error and keeps of the list exactly the comments without backendId, in
\* their order; when it is answered with another status that is not ok,
\* loadComments sets the error state and leaves the list as it was.
C25_ListNotFoundIsEmpty ==
    [][(\E l \in loads : loads' = loads \ {l}) =>
          IF last'.status = 404
          THEN /\ getCommentsByDashboard([status |-> 404, body |-> <<>>]).ok
               /\ getCommentsByDashboard([status |-> 404, body |-> <<>>]).value = <<>>
               /\ last'.op = "loadComments"
               /\ error' = error
               /\ comments' = SelectSeq(comments, IsPending)
          ELSE IF last'.status # 200
          THEN /\ last'.op = "loadCommentsFailed"
               /\ error' # "null"
               /\ comments' = comments
          ELSE last'.op = "loadComments"]_vars
\* a list request was answered with 404 after a save had put a record in the
\* store, and the store holds comments without backendId only
C25_NotFoundKeptPending ==
    /\ last.op = "loadComments"
    /\ last.status = 404
    /\ persisted # {}
    /\ comments # <<>>
    /\ \A i \in DOMAIN comments : IsPending(comments[i])
    /\ error = "null"

\* the step handles a user_joined or user_left frame that carries its data
PresenceEventStep ==
    /\ chatLast'.op = "onmessage"
    /\ chatLast'.frame.json
    /\ chatLast'.frame.type \in {"user_joined", "user_left"}
    /\ chatLast'.frame.hasData
    /\ messages' # messages
\* the step applies the response of a fetchConnectedUsers call
UsersResponseStep == \E c \in userCalls : userCalls' = userCalls \ {c}

\* C26: a user_joined or user_left frame leaves connectedUsers as it is and
\* starts a fetchConnectedUsers call; connectedUsers changes only in the step
\* of a users_list frame, to that frame's list, or in the step of a
\* successful fetchConnectedUsers response, to a list of that response; a
\* failed fetchConnectedUsers response leaves it unchanged.
C26_PresenceByRefresh ==
    [][/\ PresenceEventStep =>
             /\ connectedUsers' = connectedUsers
             /\ \E c \in userCalls' \ userCalls : c.gen = chatLast'.gen
       /\ connectedUsers' # connectedUsers =>
             \/ /\ chatLast'.op = "onmessage"
                /\ chatLast'.frame.type = "users_list"
                /\ chatLast'.frame.hasData =>
                      connectedUsers' = [isArray |-> TRUE, items |-> chatLast'.frame.data.users]
             \/ /\ UsersResponseStep
                /\ chatLast'.op = "fetchConnectedUsers"
                /\ chatLast'.ok
                /\ connectedUsers'.isArray
                /\ connectedUsers'.items \in UserLists
       /\ (UsersResponseStep /\ ~chatLast'.ok) => connectedUsers' = connectedUsers]_vars
\* a user_joined or user_left frame has been handled while users were listed:
\* they are still listed and a fetchConnectedUsers call is in flight
C26_JoinedTriggeredRefresh ==
    /\ chatLast.op = "onmessage"
    /\ chatLast.frame.type \in {"user_joined", "user_left"}
    /\ chatLast.frame.hasData
    /\ connectedUsers.items # <<>>
    /\ \E c \in userCalls : c.gen = chatLast.gen
    /\ \E i \in DOMAIN messages : messages[i].message_type = "system"

\* the types of the chat stream whose branch reads data.data
ChatDataTypes == {"chat_message", "user_joined", "user_left", "users_list"}
\* the types of the chat stream that feed the store of the chat hook
ChatStoreTypes == ChatDataTypes \cup {"error"}

\* the step handled a frame that is not JSON or whose type is known and whose
\* data is missing
MalformedFrameStep ==
    /\ lastEvent' = "message"
    /\ IF stream = "chat"
       THEN \/ ~chatLast'.frame.json
            \/ chatLast'.frame.type \in ChatDataTypes /\ ~chatLast'.frame.hasData
       ELSE \/ ~last'.json
            \/ last'.type \in FrameOps /\ ~last'.hasData

\* C29: a frame that is not JSON, or whose type is known and whose data is
\* missing, changes neither the comments, the messages, the connected users,
\* the connection state nor the attempt counter, and leaves every socket as
\* it is, in the comments stream and in the chat stream.
C29_MalformedDropped ==
    [][MalformedFrameStep =>
          UNCHANGED <<comments, messages, connectedUsers, isConnected,
                      reconnectAttemptsRef, sockets, wsRef, timers>>]_vars

\* the step handled a frame whose type is not among those of its stream
UnknownTypeStep ==
    /\ lastEvent' = "message"
    /\ IF stream = "chat"
       THEN chatLast'.frame.json /\ chatLast'.frame.type \notin ChatStoreTypes
       ELSE last'.json /\ last'.type \notin FrameOps

\* C30: a frame whose type is not among those of its stream (comments:
\* comment_created, comment_updated, comment_deleted; chat: chat_message,
\* user_joined, user_left, users_list, error) changes neither the comments,
\* the messages, the connected users nor an error state, and leaves every
\* socket as it is.
C30_UnknownTypeIgnored ==
    [][UnknownTypeStep =>
          UNCHANGED <<comments, messages, connectedUsers, error, chatError,
                      sockets, wsRef, isConnected>>]_vars
\* a frame of an unknown type was handled on an open socket of the comments
\* stream while the store held a comment
C30_UnknownSeen ==
    /\ stream = "comments"
    /\ lastEvent = "message"
    /\ last.op = "frame"
    /\ last.type = "comment_pinned"
    /\ comments # <<>>
    /\ refIsOpen

\* ------------------------------------------------------------------------
\* Properties of updateComment and deleteComment

\* C23: an updateComment or deleteComment call whose request the service
\* answers with 404 completes without raising an error.
C23_NotFoundIsSuccess ==
    (last.op \in {"updateComment", "deleteComment"} /\ last.requested /\ last.status = 404) =>
        last.outcome = "resolved"

\* the entity of list with this id has a backendId
IsConfirmedId(list, id) ==
    \E i \in DOMAIN list : list[i].id = id /\ Truthy(list[i].backendId)

\* C24: deleteComment(id) on an entity that has a backendId removes it from
\* the list by the time the call has made its request, without a
\* comment_deleted frame; deleteComment(id) for an id that is not in the list
\* changes nothing and raises no error.
C24_OptimisticDelete ==
    [][(last'.op = "deleteComment" /\ last' # last) =>
          IF IsConfirmedId(comments, last'.id)
          THEN \A i \in DOMAIN comments' : comments'[i].id # last'.id
          ELSE (\A i \in DOMAIN comments : comments[i].id # last'.id) =>
                  (comments' = comments /\ last'.outcome = "resolved")]_vars

\* ------------------------------------------------------------------------
\* The comments store: identifiers of its entities
\* ------------------------------------------------------------------------
\* every comment whose id was made by createTemporaryComment has no backendId
PendingHasNoRemoteId ==
    \A i \in DOMAIN comments : IsTemp(comments[i].id) => comments[i].backendId = UNDEF
\* the step applies the response of a getCommentsByDashboard call
LoadResponseStep == loads' # loads /\ loads' \subseteq loads
\* a comment that has a backendId keeps it: at its index when the step
\* rewrites the list in place or appends to it, and under its id whenever a
\* comment of that id is still in the list
RemoteIdKept ==
    /\ (~LoadResponseStep /\ Len(comments') >= Len(comments)) =>
          \A i \in DOMAIN comments :
              Truthy(comments[i].backendId) => comments'[i].backendId = comments[i].backendId
    /\ \A i \in DOMAIN comments, j \in DOMAIN comments' :
          (Truthy(comments[i].backendId) /\ comments'[j].id = comments[i].id) =>
              comments'[j].backendId = comments[i].backendId

MoveStep == last'.op = "updateCommentPosition" /\ (last' # last \/ comments' # comments)
\* comment i of prev has taken the coordinates and nothing else has changed
MovedOnly(prev, next, i, x, y) ==
    /\ Len(next) = Len(prev)
    /\ next[i] = [prev[i] EXCEPT !.x = x, !.y = y]
    /\ \A j \in DOMAIN prev : j # i => next[j] = prev[j]

\* C32: updateCommentPosition(id, x, y) gives the comment of that id the
\* coordinates at once, whether or not it has a backendId, and changes no
\* other field, no other comment and not the order; the coordinates request
\* that may follow changes nothing in the list.
C32_MoveOnlyThatEntity ==
    [][MoveStep =>
          \E i \in DOMAIN comments :
              /\ comments[i].id = last'.id
              /\ MovedOnly(comments, comments', i, last'.x, last'.y)]_vars

\* C33: a comment that a comment_created frame put into the list while a
\* getCommentsByDashboard call was awaiting its response, for a record the
\* service made after it took that call's listing, is still in the list when
\* the response has been applied.
C33_LoadKeepsStreamed ==
    [][(LoadResponseStep /\ last'.op = "loadComments") =>
          \A l \in loads \ loads', n \in 1..allocated :
              (/\ n > l.snapshot
               /\ RemoteId(n) \notin persisted
               /\ CountBackendId(comments, RemoteId(n)) > 0)
              => CountBackendId(comments', RemoteId(n)) > 0]_vars

\* the last handler to run was ws.onmessage, for a socket of effect run g,
\* with a chat_message frame that carries the message of this id
StreamedLast(id, g) ==
    /\ chatLast.op = "onmessage"
    /\ chatLast.gen = g
    /\ chatLast.frame.type = "chat_message"
    /\ chatLast.frame.hasData
    /\ chatLast.frame.data.id = id

\* C34: when the response of loadHistory is applied after a chat_message
\* frame of the same room was handled, the message of that frame is still in
\* the list, once.
C34_HistoryKeepsStreamed ==
    [][\A c \in historyCalls :
          (historyCalls' = historyCalls \ {c} /\ ~Disposed(c.gen)) =>
              \A id \in ChatMessageIds :
                  StreamedLast(id, c.gen) =>
                      Cardinality(PositionsOf(messages', id)) = 1]_vars

\* C35: when the response of a fetchConnectedUsers call is applied after that
\* of a call the same run made later, and no call of the run is left awaiting
\* its response, the connected users are those of the later call's response.
C35_NewestRefreshWins ==
    [][\A c \in userCalls :
          (/\ userCalls' = userCalls \ {c}
           /\ ~ \E d \in userCalls' : d.gen = c.gen
           /\ chatLast.op = "fetchConnectedUsers"
           /\ chatLast.gen = c.gen
           /\ chatLast.ok
           /\ chatLast.n > c.n)
          => connectedUsers' = connectedUsers]_vars

\* C36: the close event of a socket that connectToRoom has replaced, delivered
\* while the socket that replaced it is open, leaves the value last given to
\* the connection handlers true.
C36_ReplacedSocketSilent ==
    [][\A s \in apiSockets :
          (/\ apiSockets' = apiSockets \ {s}
           /\ s.id # apiWs
           /\ apiWs # 0
           /\ ApiReadyState = "OPEN")
          => apiConnection' = TRUE]_vars

\* C37: in useCommentsWebSocket, the close event of a socket of a run of the
\* effect that has been disposed, delivered when wsRef no longer refers to
\* that socket, leaves wsRef as it is and sets no reconnect timer.
C37_LateCloseIgnored ==
    [][stream = "comments" =>
          \A s \in sockets :
              (sockets' = sockets \ {s} /\ Disposed(s.gen) /\ s.id # wsRef)
              => (wsRef' = wsRef /\ timers' = timers)]_vars

====
